---- MODULE Spec2Model ----
(***************************************************************************)
(* State-machine model of OHLCVProvider (src/ohlcv-provider.js).           *)
(*                                                                         *)
(* A candle [timestamp, open, high, low, close, volume] is represented by  *)
(* its timestamp (element 0), the only field the provider ever reads.      *)
(* JavaScript runs every callback to its next await without interleaving,  *)
(* so each action below is one such run: a constructor call, the           *)
(* continuation after an awaited fetch or sleep, or one timer callback.    *)
(* The fetch collaborator either rejects or resolves with an ascending     *)
(* chunk of at most `limit` candles at or after the requested `since`.     *)
(***************************************************************************)
EXTENDS Integers, Sequences, FiniteSets, TLC

(* ---------------------------- bounds ----------------------------------- *)
\* days * 24 * 60: the window length counted in one-minute candles
\* (the constructor's `days` is WindowCandles / 1440).
WindowCandles == 3
\* the constructor's `limit`: most candles one fetch returns
Limit == 2
\* how many times the wall clock advances by one candle interval
MaxClockSteps == 2
\* how many times the watcher timer callback runs
MaxTicks == 3
\* how many live-tick fetches may be awaiting their answer at once
MaxInFlight == 2

(* --------------------------- constants --------------------------------- *)
TIMEFRAMES_IN_MILLISECONDS == [tf \in {"1m"} |-> 60000]

\* timeframe arguments a caller may pass to the constructor
TimeframeArgs == {"1m", "5m"}

NULL == "null"

\* this.#days * 24 * 60 * 60 * 1000
WindowMs == WindowCandles * 60 * 1000

\* this.#days * 24 * 60
SizeLimit == WindowCandles

\* Date.now() when the constructor runs
StartTime == WindowMs

VARIABLES
    timeframe,         \* constructor argument (NULL before construction)
    backfill,          \* position of #loadInitialData / the constructor
    deque,             \* this.#deque, front first
    isReady,           \* this.#isReady
    nextCandleTime,    \* local of #loadInitialData
    allCandlesLoaded,  \* local of #loadInitialData
    loopExit,          \* how the backfill loop was left
    chunks,            \* non-empty chunks the backfill has received, in order
    startPromise,      \* promise of the un-awaited #start() call
    pollTimer,         \* the one-second setInterval of #start
    watcher,           \* this.#watcher
    watchersCreated,   \* number of setInterval calls made by #startMonitoring
    inflight,          \* `since` of each live-tick fetch awaiting its answer
    ticks,             \* number of watcher callback runs
    lastTick,          \* outcome of the most recently finished live tick
    fetchCalls,        \* number of fetchOHLCV calls issued
    evictions,         \* number of #removeOldCandles passes run
    appended,          \* every candle ever given to pushBack, in call order
    now                \* Date.now()

vars == <<timeframe, backfill, deque, isReady, nextCandleTime,
          allCandlesLoaded, loopExit, chunks, startPromise, pollTimer,
          watcher, watchersCreated, inflight, ticks, lastTick, fetchCalls,
          evictions, appended, now>>

(* ---------------------------- helpers ---------------------------------- *)
Last(s) == s[Len(s)]

RECURSIVE Flatten(_)
Flatten(ss) == IF ss = <<>> THEN <<>> ELSE Head(ss) \o Flatten(Tail(ss))

SetMin(S) == CHOOSE x \in S : \A y \in S : x <= y

RECURSIVE AscendingSeq(_)
AscendingSeq(S) ==
    IF S = {} THEN <<>>
    ELSE <<SetMin(S)>> \o AscendingSeq(S \ {SetMin(S)})

\* timestamps of the candles the source can hold at time t
CandleTimes(t) ==
    {k * 60000 : k \in 0 .. (WindowCandles + MaxClockSteps)} \cap (0 .. t)

\* fetchOHLCV(symbol, timeframe, since, limit) resolving at time t:
\* ascending candles at or after since, at most Limit of them
FetchResults(since, t) ==
    {AscendingSeq(T) : T \in {U \in SUBSET {c \in CandleTimes(t) : c >= since} :
                                  Cardinality(U) <= Limit}}

getTimestampForDaysAgo(t) == t - WindowMs

\* variant: a candle exactly on the window boundary is evicted too
RECURSIVE removeOldCandlesInclusive(_, _)
removeOldCandlesInclusive(dq, t) ==
    IF dq = <<>> THEN [deque |-> dq, threw |-> TRUE]
    ELSE IF Head(dq) <= getTimestampForDaysAgo(t)
         THEN removeOldCandlesInclusive(Tail(dq), t)
         ELSE [deque |-> dq, threw |-> FALSE]

\* variant: an empty deque ends the pass normally
RECURSIVE removeOldCandlesShortCircuit(_, _)
removeOldCandlesShortCircuit(dq, t) ==
    IF dq = <<>> THEN [deque |-> dq, threw |-> FALSE]
    ELSE IF Head(dq) < getTimestampForDaysAgo(t)
         THEN removeOldCandlesShortCircuit(Tail(dq), t)
         ELSE [deque |-> dq, threw |-> FALSE]

\* #removeOldCandles at time t.  front() of an empty Deque is undefined, so
\* reading its element 0 throws a TypeError.
RECURSIVE removeOldCandles(_, _)
removeOldCandles(dq, t) ==
    IF dq = <<>> THEN [deque |-> dq, threw |-> TRUE]
    ELSE IF Head(dq) < getTimestampForDaysAgo(t)
         THEN removeOldCandles(Tail(dq), t)
         ELSE [deque |-> dq, threw |-> FALSE]

\* variant: candles are put at the front instead of the back
pushFrontAll(dq, candles) == candles \o dq

\* candles.forEach((candle) => this.#deque.pushBack(candle))
pushBackAll(dq, candles) == dq \o candles

(* ------------------------ consumer accessors --------------------------- *)
isDataAvailable == isReady

getAllInArray == [i \in 1 .. Len(deque) |-> deque[i]]

getAllInDeque == deque

\* this.#deque.front(): undefined when the deque is empty
getFirst == IF deque = <<>> THEN "undefined" ELSE Head(deque)

\* this.#deque.back(): undefined when the deque is empty
getLast == IF deque = <<>> THEN "undefined" ELSE Last(deque)

\* this.#deque.getElementByPos(id): RangeError outside 0 .. size() - 1
get(id) ==
    IF id \in 0 .. (Len(deque) - 1) THEN deque[id + 1] ELSE "RangeError"

(* ------------------------------ Init ----------------------------------- *)
Init ==
    /\ timeframe = NULL
    /\ backfill = "new"
    /\ deque = <<>>
    /\ isReady = FALSE
    /\ nextCandleTime = 0
    /\ allCandlesLoaded = FALSE
    /\ loopExit = "none"
    /\ chunks = <<>>
    /\ startPromise = "none"
    /\ pollTimer = "none"
    /\ watcher = NULL
    /\ watchersCreated = 0
    /\ inflight = <<>>
    /\ ticks = 0
    /\ lastTick = "none"
    /\ fetchCalls = 0
    /\ evictions = 0
    /\ appended = <<>>
    /\ now = StartTime

(* --------------------------- constructor ------------------------------- *)
\* variant: the registry lookup accepts any identifier
ValidTimeframeAny(tf) == tf \in TimeframeArgs

\* Object.keys(TIMEFRAMES_IN_MILLISECONDS).includes(timeframe)
ValidTimeframe(tf) == tf \in DOMAIN TIMEFRAMES_IN_MILLISECONDS

\* variant: the constructor starts the watcher timer itself instead of
\* leaving it to #start after the backfill
ConstructMonitorsAtOnce(tf) ==
    /\ backfill = "new"
    /\ timeframe' = tf
    /\ IF ~ValidTimeframe(tf)
       THEN /\ backfill' = "thrown"
            /\ UNCHANGED <<nextCandleTime, startPromise, fetchCalls, watcher,
                           watchersCreated>>
       ELSE /\ backfill' = "fetch"
            /\ nextCandleTime' = getTimestampForDaysAgo(now)
            /\ startPromise' = "pending"
            /\ fetchCalls' = fetchCalls + 1
            /\ watcher' = "active"
            /\ watchersCreated' = watchersCreated + 1
    /\ UNCHANGED <<deque, isReady, allCandlesLoaded, loopExit, chunks,
                   pollTimer, inflight, ticks, lastTick, evictions, appended,
                   now>>

\* new OHLCVProvider(symbol, client, tf, ...).  With a registered timeframe
\* the fields are set and #start() runs synchronously up to the first await,
\* which is the first fetchOHLCV call of #loadInitialData.
Construct(tf) ==
    /\ backfill = "new"
    /\ timeframe' = tf
    /\ IF ~ValidTimeframe(tf)
       THEN /\ backfill' = "thrown"
            /\ UNCHANGED <<nextCandleTime, startPromise, fetchCalls>>
       ELSE /\ backfill' = "fetch"
            /\ nextCandleTime' = getTimestampForDaysAgo(now)
            /\ startPromise' = "pending"
            /\ fetchCalls' = fetchCalls + 1
    /\ UNCHANGED <<deque, isReady, allCandlesLoaded, loopExit, chunks,
                   pollTimer, watcher, watchersCreated, inflight, ticks,
                   lastTick, evictions, appended, now>>

(* ----------------------------- backfill -------------------------------- *)
\* Leaving the while loop of #loadInitialData with buffer dq: the eviction
\* pass, then isReady = true, then (same microtask chain) #start resumes and
\* creates the one-second poll.  If the eviction pass throws, the promise of
\* #loadInitialData rejects, #loadDataInBackground logs and rejects, and the
\* await in #start rethrows: the #start promise rejects and nothing else runs.
ExitLoop(dq, reason) ==
    LET r == removeOldCandles(dq, now) IN
    /\ loopExit' = reason
    /\ deque' = r.deque
    /\ evictions' = evictions + 1
    /\ IF r.threw
       THEN /\ backfill' = "failed"
            /\ startPromise' = "rejected"
            /\ UNCHANGED <<isReady, pollTimer>>
       ELSE /\ backfill' = "done"
            /\ isReady' = TRUE
            /\ startPromise' = "fulfilled"
            /\ pollTimer' = "active"

\* variant: the size test is strict
windowLoadedStrict(dq) ==
    \/ Head(dq) = Last(dq) + WindowMs
    \/ Len(dq) > SizeLimit

\* the test after each chunk: front()[0] === back()[0] + days * 86400000
\* or size() >= days * 24 * 60
windowLoaded(dq) ==
    \/ Head(dq) = Last(dq) + WindowMs
    \/ Len(dq) >= SizeLimit

\* variant: readiness is raised as soon as the loop decides to stop,
\* before the pause and the eviction pass
BackfillChunkReadyEarly(candlesChunk) ==
    /\ backfill = "fetch"
    /\ candlesChunk \in FetchResults(nextCandleTime, now)
    /\ IF Len(candlesChunk) = 0
       THEN /\ allCandlesLoaded' = TRUE
            /\ ExitLoop(deque, "empty")
            /\ UNCHANGED <<nextCandleTime, chunks, appended>>
       ELSE LET dq == pushBackAll(deque, candlesChunk) IN
            /\ deque' = dq
            /\ chunks' = Append(chunks, candlesChunk)
            /\ appended' = appended \o candlesChunk
            /\ nextCandleTime' =
                   Last(candlesChunk) + TIMEFRAMES_IN_MILLISECONDS[timeframe]
            /\ allCandlesLoaded' = windowLoaded(dq)
            /\ isReady' = allCandlesLoaded'
            /\ backfill' = "sleep"
            /\ UNCHANGED <<loopExit, startPromise, pollTimer, evictions>>
    /\ UNCHANGED <<timeframe, watcher, watchersCreated, inflight, ticks,
                   lastTick, fetchCalls, now>>

\* the awaited fetchOHLCV of the backfill loop resolves with candlesChunk
BackfillChunk(candlesChunk) ==
    /\ backfill = "fetch"
    /\ candlesChunk \in FetchResults(nextCandleTime, now)
    /\ IF Len(candlesChunk) = 0
       THEN /\ allCandlesLoaded' = TRUE
            /\ ExitLoop(deque, "empty")
            /\ UNCHANGED <<nextCandleTime, chunks, appended>>
       ELSE LET dq == pushBackAll(deque, candlesChunk) IN
            /\ deque' = dq
            /\ chunks' = Append(chunks, candlesChunk)
            /\ appended' = appended \o candlesChunk
            /\ nextCandleTime' =
                   Last(candlesChunk) + TIMEFRAMES_IN_MILLISECONDS[timeframe]
            /\ allCandlesLoaded' = windowLoaded(dq)
            /\ backfill' = "sleep"
            /\ UNCHANGED <<isReady, loopExit, startPromise, pollTimer,
                           evictions>>
    /\ UNCHANGED <<timeframe, watcher, watchersCreated, inflight, ticks,
                   lastTick, fetchCalls, now>>

\* the awaited fetchOHLCV of the backfill loop rejects: catch, log, break
BackfillFetchFails ==
    /\ backfill = "fetch"
    /\ ExitLoop(deque, "error")
    /\ UNCHANGED <<timeframe, nextCandleTime, allCandlesLoaded, chunks,
                   watcher, watchersCreated, inflight, ticks, lastTick,
                   fetchCalls, appended, now>>

\* utils.sleep(500) resolves: the loop condition is tested again
BackfillWake ==
    /\ backfill = "sleep"
    /\ IF allCandlesLoaded
       THEN /\ ExitLoop(deque, "loaded")
            /\ UNCHANGED fetchCalls
       ELSE /\ backfill' = "fetch"
            /\ fetchCalls' = fetchCalls + 1
            /\ UNCHANGED <<deque, isReady, loopExit, startPromise, pollTimer,
                           evictions>>
    /\ UNCHANGED <<timeframe, nextCandleTime, allCandlesLoaded, chunks,
                   watcher, watchersCreated, inflight, ticks, lastTick,
                   appended, now>>

(* --------------------------- live updating ----------------------------- *)
\* #startMonitoring: this.#watcher = setInterval(..., updateInterval)
startMonitoring ==
    /\ watcher' = "active"
    /\ watchersCreated' = watchersCreated + 1

\* variant: the poll forgets clearInterval(interval)
PollFireNoClear ==
    /\ pollTimer = "active"
    /\ isReady
    /\ startMonitoring
    /\ UNCHANGED <<timeframe, backfill, deque, isReady, nextCandleTime,
                   allCandlesLoaded, loopExit, chunks, startPromise,
                   pollTimer, inflight, ticks, lastTick, fetchCalls,
                   evictions, appended, now>>

\* one run of the one-second poll created by #start
PollFire ==
    /\ pollTimer = "active"
    /\ isReady
    /\ startMonitoring
    /\ pollTimer' = "cleared"
    /\ UNCHANGED <<timeframe, backfill, deque, isReady, nextCandleTime,
                   allCandlesLoaded, loopExit, chunks, startPromise,
                   inflight, ticks, lastTick, fetchCalls, evictions,
                   appended, now>>

\* one run of the watcher callback.  When ready it calls
\* #startWatchingForNewOHLCV, which runs up to its await: the argument
\* this.#deque.back()[0] + interval is evaluated (a TypeError inside the try
\* when the deque is empty) and the fetch is issued.  The timer does not wait
\* for the returned promise, so earlier ticks may still be awaiting theirs.
WatcherFire ==
    /\ watcher = "active"
    /\ ticks < MaxTicks
    /\ ticks' = ticks + 1
    /\ IF ~isReady
       THEN UNCHANGED <<isReady, inflight, lastTick, fetchCalls>>
       ELSE IF deque = <<>>
            THEN /\ isReady' = FALSE
                 /\ lastTick' = "threw"
                 /\ UNCHANGED <<inflight, fetchCalls>>
            ELSE /\ Len(inflight) < MaxInFlight
                 /\ inflight' = Append(inflight,
                       Last(deque) + TIMEFRAMES_IN_MILLISECONDS[timeframe])
                 /\ fetchCalls' = fetchCalls + 1
                 /\ UNCHANGED <<isReady, lastTick>>
    /\ UNCHANGED <<timeframe, backfill, deque, nextCandleTime,
                   allCandlesLoaded, loopExit, chunks, startPromise,
                   pollTimer, watcher, watchersCreated, evictions,
                   appended, now>>

RemoveAt(s, i) == SubSeq(s, 1, i - 1) \o SubSeq(s, i + 1, Len(s))

\* the awaited fetchOHLCV of live tick i resolves with candles: append,
\* eviction pass, isReady = true; a throwing eviction pass lands in the catch
startWatchingForNewOHLCV(i, candles) ==
    LET r == removeOldCandles(pushBackAll(deque, candles), now) IN
    /\ i \in 1 .. Len(inflight)
    /\ candles \in FetchResults(inflight[i], now)
    /\ inflight' = RemoveAt(inflight, i)
    /\ deque' = r.deque
    /\ evictions' = evictions + 1
    /\ isReady' = ~r.threw
    /\ lastTick' = IF r.threw THEN "threw" ELSE "ok"
    /\ appended' = appended \o candles
    /\ UNCHANGED <<timeframe, backfill, nextCandleTime, allCandlesLoaded,
                   loopExit, chunks, startPromise, pollTimer, watcher,
                   watchersCreated, ticks, fetchCalls, now>>

\* the awaited fetchOHLCV of live tick i rejects: catch, log, isReady = false
LiveFetchFails(i) ==
    /\ i \in 1 .. Len(inflight)
    /\ inflight' = RemoveAt(inflight, i)
    /\ isReady' = FALSE
    /\ lastTick' = "fetchFailed"
    /\ UNCHANGED <<timeframe, backfill, deque, nextCandleTime,
                   allCandlesLoaded, loopExit, chunks, startPromise,
                   pollTimer, watcher, watchersCreated, ticks, fetchCalls,
                   evictions, appended, now>>

(* ------------------------------ clock ---------------------------------- *)
\* wall-clock time passes by one candle interval
AdvanceClock ==
    /\ now < StartTime + MaxClockSteps * 60000
    /\ now' = now + 60000
    /\ UNCHANGED <<timeframe, backfill, deque, isReady, nextCandleTime,
                   allCandlesLoaded, loopExit, chunks, startPromise,
                   pollTimer, watcher, watchersCreated, inflight, ticks,
                   lastTick, fetchCalls, evictions, appended>>

Next ==
    \/ \E tf \in TimeframeArgs : Construct(tf)
    \/ \E c \in FetchResults(nextCandleTime, now) : BackfillChunk(c)
    \/ BackfillFetchFails
    \/ BackfillWake
    \/ PollFire
    \/ WatcherFire
    \/ \E i \in 1 .. Len(inflight) :
          \E c \in FetchResults(inflight[i], now) :
             startWatchingForNewOHLCV(i, c)
    \/ \E i \in 1 .. Len(inflight) : LiveFetchFails(i)
    \/ AdvanceClock

Spec == Init /\ [][Next]_vars

\* every issued fetch is answered, every sleep and timer fires
FairSpec ==
    /\ Spec
    /\ WF_vars(\E c \in FetchResults(nextCandleTime, now) : BackfillChunk(c))
    /\ WF_vars(BackfillFetchFails)
    /\ WF_vars(BackfillWake)
    /\ WF_vars(PollFire)

(* ============================ properties =============================== *)
Running == backfill \in {"fetch", "sleep"}

\* C1: whatever the fetch collaborator does during backfill (failure or
\* empty result on any call, the first included), the provider eventually
\* sets isReady to true so that isDataAvailable() returns true.
C1_EventuallyReady == Running ~> isDataAvailable

\* C2: isDataAvailable() is false in every state in which the backfill loop
\* is still running; it is true only once the loop has been left and the
\* post-backfill eviction pass has run.
C2_NotReadyWhileBackfilling ==
    /\ (backfill \in {"new", "fetch", "sleep"} => ~isDataAvailable)
    /\ (isDataAvailable =>
           backfill = "done" /\ loopExit # "none" /\ evictions >= 1)

C2_Witness ==
    /\ backfill = "sleep"
    /\ Len(deque) >= 2
    /\ allCandlesLoaded
    /\ ~isDataAvailable

\* C3: after a live tick whose fetch fails, the next run of the periodic
\* timer issues a fetch again.
C3_FailedTickIsRetried ==
    [][(ticks' = ticks + 1 /\ lastTick = "fetchFailed")
          => fetchCalls' = fetchCalls + 1]_vars

\* C4: the promise of the constructor's un-awaited #start() call never
\* rejects, whatever the fetch collaborator does.
C4_StartNeverRejects == startPromise # "rejected"

\* C5: whenever the buffer is non-empty its candle timestamps are
\* non-decreasing by position.
C5_TimestampsNonDecreasing ==
    \A i, j \in 1 .. Len(deque) : i <= j => deque[i] <= deque[j]

\* C6: whenever an eviction pass has run at time T, no candle left in the
\* buffer has a timestamp below T - days * 86400000.
C6_NoCandleOlderThanWindow ==
    [][evictions' = evictions + 1 =>
          \A i \in 1 .. Len(deque') :
             deque'[i] >= getTimestampForDaysAgo(now')]_vars

\* C7: live ticks never overlap: at most one fetch-append-evict sequence of
\* a live tick is in progress at any time.
C7_TicksNeverOverlap == Len(inflight) <= 1

\* C8: while backfill is still in progress the read accessors expose none of
\* the candles loaded so far.
C8_NoPartialStateVisible == Running => getAllInArray = <<>>

\* C9: constructing with a timeframe that is not registered throws from the
\* constructor and starts nothing: no fetch, no promise, no timer.
C9_UnregisteredTimeframeFailsFast ==
    (timeframe # NULL /\ timeframe \notin DOMAIN TIMEFRAMES_IN_MILLISECONDS)
       => /\ backfill = "thrown"
          /\ fetchCalls = 0
          /\ startPromise = "none"
          /\ pollTimer = "none"
          /\ watcher = NULL
          /\ deque = <<>>
          /\ ~isReady

C9_Witness == backfill = "thrown" /\ timeframe = "5m"

\* C10: when the backfill's fetches are answered by k >= 1 non-empty chunks
\* and then an empty one, all candles inside the window and fewer than
\* days * 1440 in total, backfill has made exactly k + 1 fetch calls and the
\* buffer is the concatenation of the k chunks in received order.
C10_ChunksThenEmpty ==
    [][(/\ backfill = "fetch"
        /\ loopExit' = "empty"
        /\ Len(chunks) >= 1
        /\ Len(Flatten(chunks)) < SizeLimit
        /\ \A i \in 1 .. Len(Flatten(chunks)) :
              Flatten(chunks)[i] >= getTimestampForDaysAgo(now))
          => /\ fetchCalls' = Len(chunks) + 1
             /\ deque' = Flatten(chunks)
             /\ isReady']_vars

C10_Witness ==
    /\ loopExit = "empty"
    /\ Len(chunks) = 2
    /\ fetchCalls = 3
    /\ watcher = NULL
    /\ deque = Flatten(chunks)
    /\ isReady

\* a live tick finishes in this step (its awaited fetch is answered)
TickFinishes == Len(inflight') = Len(inflight) - 1

\* C11: a live tick that obtains no candles (empty result or failed fetch)
\* appends nothing and removes only a prefix of candles older than
\* now - days * 86400000; after a failed fetch the buffer is unchanged.
C11_EmptyTickOnlyEvictsOld ==
    [][(TickFinishes /\ appended' = appended) =>
          /\ \E n \in 0 .. Len(deque) :
                /\ deque' = SubSeq(deque, n + 1, Len(deque))
                /\ \A i \in 1 .. n : deque[i] < getTimestampForDaysAgo(now)
          /\ (lastTick' = "fetchFailed" => deque' = deque)]_vars

C11_Witness ==
    /\ lastTick = "ok"
    /\ inflight = <<>>
    /\ appended = Flatten(chunks)
    /\ evictions >= 2
    /\ Len(deque) >= 1
    /\ Len(deque) < Len(appended)

\* C12: getFirst() and getLast() on an empty buffer and get(position) with
\* position outside [0, size) raise an error; get(position) inside the range
\* returns the candle at that position counted from the front.
C12_AccessorsRaiseErrors ==
    backfill \notin {"new", "thrown"} =>
       /\ (deque = <<>> =>
              getFirst \in {"RangeError", "TypeError"}
              /\ getLast \in {"RangeError", "TypeError"})
       /\ \A id \in (0 - 1) .. (Len(deque) + 1) :
             get(id) = IF id \in 0 .. (Len(deque) - 1)
                       THEN getAllInArray[id + 1]
                       ELSE "RangeError"

\* C13: an eviction pass on an empty buffer, or on a buffer whose candles
\* are all older than the window boundary, returns normally.
C13_EvictionNeverFaults ==
    [][evictions' = evictions + 1 =>
          (backfill' # "failed" /\ lastTick' # "threw")]_vars

\* C14: a live tick whose fetch fails sets isReady to false, the following
\* run of the timer starts a tick again, and a tick whose fetch succeeds
\* sets isReady back to true.
C14_ReadinessRecovers ==
    [][/\ (TickFinishes /\ lastTick' = "fetchFailed") => ~isReady'
       /\ (TickFinishes /\ lastTick' = "ok") => isReady'
       /\ (ticks' = ticks + 1 /\ ~isReady /\ inflight = <<>>)
             => inflight' # <<>>]_vars

\* C15: backfill stops fetching after a chunk once
\* front.timestamp - back.timestamp = -days * 86400000, even with fewer
\* than days * 1440 candles in the buffer.
C15_StopsAtFullWidth ==
    (backfill = "sleep" /\ Head(deque) - Last(deque) = 0 - WindowMs)
       => allCandlesLoaded

\* C16: while the backfill has not finished (loop left, eviction pass run,
\* isReady set) no timer exists and no live tick has run or fetched.
C16_BackfillBeforeLive ==
    /\ (backfill # "done" =>
           /\ pollTimer = "none"
           /\ watcher = NULL
           /\ ticks = 0
           /\ inflight = <<>>)
    /\ (backfill = "done" => loopExit # "none" /\ evictions >= 1)
    /\ (Running => fetchCalls = Len(chunks) + (IF backfill = "fetch" THEN 1 ELSE 0))

C16_Witness ==
    /\ backfill = "done"
    /\ watcher = "active"
    /\ inflight # <<>>
    /\ Len(chunks) >= 2

\* C17: the buffer is always a contiguous run of the sequence of all
\* candles ever appended, in append order, that ends at the newest one:
\* candles enter at the back only and leave at the front only.
C17_AppendBackRemoveFront ==
    \E k \in 0 .. Len(appended) :
       deque = SubSeq(appended, k + 1, Len(appended))

C17_Witness ==
    /\ Len(appended) > Len(Flatten(chunks))
    /\ Len(deque) >= 2
    /\ Len(deque) < Len(appended)
    /\ evictions >= 2

Max(a, b) == IF a >= b THEN a ELSE b

\* C18: the backfill loop terminates: no fetch follows an empty chunk, a
\* failed fetch or a chunk that brings the buffer to days * 1440 candles, so
\* backfill makes at most max(1, days * 1440) fetch calls.
C18_BackfillTerminates ==
    /\ [][/\ watcher' = NULL => fetchCalls' <= Max(1, SizeLimit)
          /\ backfill \in {"done", "failed"} => backfill' = backfill
          /\ (backfill = "fetch" /\ backfill' # "fetch" /\ chunks' = chunks)
                => (backfill' \in {"done", "failed"} /\ fetchCalls' = fetchCalls)
          /\ (backfill = "sleep" /\ backfill' # "sleep"
                /\ Len(deque) >= SizeLimit)
                => (backfill' \in {"done", "failed"} /\ fetchCalls' = fetchCalls)
         ]_vars
    /\ (Running ~> ~Running)

C18_Witness ==
    /\ backfill = "done"
    /\ loopExit = "loaded"
    /\ watcher = NULL
    /\ fetchCalls = Max(1, SizeLimit)

\* C19: whenever a consumer can call an accessor, isReady = true implies a
\* non-empty buffer; an eviction pass that empties the buffer leaves
\* isReady false.
C19_ReadyImpliesNonEmpty == isReady => deque # <<>>

C19_Witness ==
    /\ lastTick = "threw"
    /\ deque = <<>>
    /\ appended # <<>>
    /\ ~isReady

\* C20: the watcher timer is created at most once per provider: the poll
\* calls #startMonitoring once and cancels itself in the same step.
C20_OneWatcherTimer ==
    /\ watchersCreated <= 1
    /\ (watchersCreated = 1) = (pollTimer = "cleared")
    /\ (watchersCreated = 1) = (watcher = "active")

C20_Witness ==
    /\ watchersCreated = 1
    /\ pollTimer = "cleared"
    /\ ~isReady
    /\ ticks >= 2

====
